---------------------------- MODULE Spec2Model ----------------------------
(***************************************************************************)
(* The replay sender of LiveTraffic, src/Resources/SendTraffic.py: it      *)
(* reads a file of CSV lines, forwards weather lines, filters traffic      *)
(* lines by aircraft id, rewrites their timestamp, paces them against the  *)
(* wall clock and optionally loops over the file.                          *)
(*                                                                         *)
(* Text is modelled as a sequence of one-character strings, so that strip, *)
(* startswith, split, join, int(), float(), str() and encode('ascii') are  *)
(* computed character by character.  The wall clock counts ticks,          *)
(* TicksPerSec ticks to a second, so that int(time.time()) truncates.      *)
(* Timestamps are whole seconds: a Python float holding an integral value  *)
(* is modelled by that integer, and str() of it ends in ".0".              *)
(***************************************************************************)
EXTENDS Integers, Sequences, FiniteSets, TLC

(***************************************************************************)
(* Bounds of the model                                                     *)
(***************************************************************************)
\* lines in the input file
MaxLines == 2
\* passes over the input file that are explored when looping is enabled
MaxPass == 3
\* wall-clock ticks to a second
TicksPerSec == 2

(***************************************************************************)
(* Evaluation                                                              *)
(***************************************************************************)
\* F applied to the value of e: e is evaluated once, whatever the number
\* of places where F uses its parameter
Bind(e, F(_)) == CHOOSE r \in {F(x) : x \in {e}} : TRUE

\* the least number of a set of numbers
Min(S) == CHOOSE i \in S : \A j \in S : i <= j

(***************************************************************************)
(* Text primitives                                                         *)
(***************************************************************************)
\* the one character of the alphabet outside ASCII (a degree sign)
NonAscii == "U+00B0"

\* str.strip() removes these at both ends
Whitespace == {" ", "\n", "\t"}

\* line.strip(): what lies between the first and the last character that
\* is no whitespace
Strip(s) ==
    Bind(SelectSeq([i \in 1..Len(s) |-> i], LAMBDA i : s[i] \notin Whitespace),
         LAMBDA keep : IF keep = <<>> THEN <<>>
                       ELSE SubSeq(s, keep[1], keep[Len(keep)]))

\* s.startswith(p)
StartsWith(s, p) == Len(s) >= Len(p) /\ SubSeq(s, 1, Len(p)) = p

\* the places of c in s, in ascending order
Places(s, c) == SelectSeq([i \in 1..Len(s) |-> i], LAMBDA i : s[i] = c)

\* s.split(c): the texts between the occurrences of c, one more than there
\* are occurrences
Split(s, c) ==
    Bind(<<0>> \o Places(s, c) \o <<Len(s) + 1>>,
         LAMBDA cut : [k \in 1..(Len(cut) - 1) |->
                          SubSeq(s, cut[k] + 1, cut[k + 1] - 1)])

\* c.join(fields) of the first n fields
RECURSIVE JoinTo(_, _, _)
JoinTo(fields, c, n) ==
    IF n = 0 THEN <<>>
    ELSE IF n = 1 THEN fields[1]
    ELSE JoinTo(fields, c, n - 1) \o <<c>> \o fields[n]

\* c.join(fields)
Join(fields, c) == JoinTo(fields, c, Len(fields))

\* s.encode('ascii'): raises UnicodeEncodeError on a character outside ASCII
IsAscii(s) == \A i \in 1..Len(s) : s[i] # NonAscii

(***************************************************************************)
(* Numbers and their text                                                  *)
(***************************************************************************)
Digits == <<"0", "1", "2", "3", "4", "5", "6", "7", "8", "9">>

\* value of a digit character, -1 when it is none
DigitVal(c) ==
    CASE c \in {"a", "A"} -> 10
      [] c \in {"b", "B"} -> 11
      [] c \in {"c", "C"} -> 12
      [] c \in {"d", "D"} -> 13
      [] c \in {"e", "E"} -> 14
      [] c \in {"f", "F"} -> 15
      [] OTHER -> IF \E d \in 1..10 : Digits[d] = c
                  THEN (CHOOSE d \in 1..10 : Digits[d] = c) - 1
                  ELSE -1

\* the value of the first n digits of s
RECURSIVE DigitsValue(_, _, _)
DigitsValue(s, base, n) ==
    IF n = 0 THEN 0
    ELSE DigitsValue(s, base, n - 1) * base + DigitVal(s[n])

\* unsigned digits in a base: [ok, val]
ParseDigits(s, base) ==
    IF s # <<>> /\ \A i \in 1..Len(s) : DigitVal(s[i]) >= 0 /\ DigitVal(s[i]) < base
    THEN [ok |-> TRUE, val |-> DigitsValue(s, base, Len(s))]
    ELSE [ok |-> FALSE, val |-> 0]

\* the literal after whitespace and sign are removed; base 0 reads the
\* base from the prefix and refuses a decimal literal with a leading zero
ParseUnsigned(s, base) ==
    IF base = 0
    THEN IF Len(s) >= 2 /\ s[1] = "0" /\ s[2] \in {"x", "X"}
         THEN ParseDigits(SubSeq(s, 3, Len(s)), 16)
         ELSE IF Len(s) >= 2 /\ s[1] = "0" /\ \E i \in 1..Len(s) : s[i] # "0"
              THEN [ok |-> FALSE, val |-> 0]
              ELSE ParseDigits(s, 10)
    ELSE ParseDigits(s, base)

\* the literal t with its sign
ParseSigned(t, base) ==
    Bind(IF t # <<>> /\ Head(t) \in {"-", "+"} THEN Tail(t) ELSE t,
         LAMBDA u : Bind(ParseUnsigned(u, base),
                         LAMBDA p : [ok |-> p.ok,
                                     val |-> IF Head(t) = "-" THEN 0 - p.val ELSE p.val]))

\* int(s, base): ok = FALSE stands for ValueError
ParseInt(s, base) ==
    Bind(Strip(s),
         LAMBDA t : IF t = <<>> THEN [ok |-> FALSE, val |-> 0]
                    ELSE ParseSigned(t, base))

\* float(s) for a whole number of seconds: an integer literal, which may be
\* followed by a point and zeros
ParseFloat(s) ==
    Bind(Split(Strip(s), "."),
         LAMBDA parts :
             IF Len(parts) = 1 THEN ParseInt(parts[1], 10)
             ELSE IF Len(parts) = 2 /\ parts[1] # <<>>
                     /\ \A i \in 1..Len(parts[2]) : parts[2][i] = "0"
                  THEN ParseInt(parts[1], 10)
                  ELSE [ok |-> FALSE, val |-> 0])

RECURSIVE StrNat(_)
StrNat(n) ==
    IF n < 10 THEN <<Digits[n + 1]>>
    ELSE StrNat(n \div 10) \o <<Digits[(n % 10) + 1]>>

\* str(x) of a float x with an integral value
StrFloat(x) ==
    (IF x < 0 THEN <<"-">> \o StrNat(0 - x) ELSE StrNat(x)) \o <<".", "0">>

(***************************************************************************)
(* Program constants                                                       *)
(***************************************************************************)
\* the recognized traffic tags
AITFC == <<"A", "I", "T", "F", "C">>
RTTFC == <<"R", "T", "T", "F", "C">>

\* a traffic line has at least this many fields
MinFields == 15
\* fields[1] and fields[14] of the source, counted from 1
IdField == 2
TsField == 15

(***************************************************************************)
(* compWaitTS                                                              *)
(***************************************************************************)
\* now = int(time.time())
Now(clk) == clk \div TicksPerSec

\* "if not _tsDiff": 0 is the value that stands for "not yet computed"
FirstCall(diff) == diff = 0

\* _tsDiff = now - ts - args.bufPeriod
InitialDiff(now, ts, buf) == now - ts - buf

\* WaitFor with the comparison the wrong way round
WaitForFlipped(ts, now) == IF ts < now THEN ts - now ELSE 0

\* seconds slept: "if (ts > now): time.sleep (ts-now)"
WaitFor(ts, now) == IF ts > now THEN ts - now ELSE 0

\* the returned text: "ts -= args.historic; return str(ts)"
Returned(ts, hist) == StrFloat(ts - hist)

\* a record of a call that did not happen or that raised in float()
NoPace(diff, clk) ==
    [ok |-> FALSE, tsDiff |-> diff, clock |-> clk, now |-> 0, rawTs |-> 0,
     target |-> 0, wait |-> 0, fresh |-> FALSE, buf |-> 0, ret |-> <<>>]

\* Pace with the historic offset taken off before the wait is computed
PaceHistoricFirst(rawTs, clk, diff, buf, hist) ==
    Bind(IF FirstCall(diff) THEN InitialDiff(Now(clk), rawTs, buf) ELSE diff,
         LAMBDA nd :
             [ok |-> TRUE, tsDiff |-> nd,
              clock |-> clk + WaitFor(rawTs + nd - hist, Now(clk)) * TicksPerSec,
              now |-> Now(clk), rawTs |-> rawTs, target |-> rawTs + nd,
              wait |-> WaitFor(rawTs + nd - hist, Now(clk)),
              fresh |-> FirstCall(diff), buf |-> buf,
              ret |-> Returned(rawTs + nd, hist)])

\* the rest of compWaitTS once float() has returned rawTs
Pace(rawTs, clk, diff, buf, hist) ==
    Bind(IF FirstCall(diff) THEN InitialDiff(Now(clk), rawTs, buf) ELSE diff,
         LAMBDA nd :
             [ok |-> TRUE, tsDiff |-> nd,
              clock |-> clk + WaitFor(rawTs + nd, Now(clk)) * TicksPerSec,
              now |-> Now(clk), rawTs |-> rawTs, target |-> rawTs + nd,
              wait |-> WaitFor(rawTs + nd, Now(clk)),
              fresh |-> FirstCall(diff), buf |-> buf,
              ret |-> Returned(rawTs + nd, hist)])

\* compWaitTS(ts_s) called at wall-clock tick clk with _tsDiff = diff,
\* args.bufPeriod = buf and args.historic = hist; clock is the tick at
\* which it returns, ok = FALSE stands for the ValueError of float()
compWaitTS(ts_s, clk, diff, buf, hist) ==
    Bind(ParseFloat(ts_s),
         LAMBDA p : IF ~p.ok THEN NoPace(diff, clk)
                    ELSE Pace(p.val, clk, diff, buf, hist))

(***************************************************************************)
(* sendTrafficData and sendWeatherData                                     *)
(***************************************************************************)
\* "if len(fields) < 15": the line is reported and skipped
TooShort(fields) == Len(fields) < MinFields

\* Selected that takes an id that is no number for one that is not selected
SelectedLenient(fields, acl) ==
    IF acl = <<>> THEN [ok |-> TRUE, sel |-> TRUE]
    ELSE Bind(ParseInt(fields[IdField], 10),
              LAMBDA id : [ok |-> TRUE,
                           sel |-> id.ok /\ \E k \in 1..Len(acl) : acl[k] = id.val])

\* "not _ac or int(fields[1]) in _ac": sel tells whether the record is one
\* of a selected aircraft, ok = FALSE stands for the ValueError of int(),
\* which is evaluated only when the list is not empty
Selected(fields, acl) ==
    IF acl = <<>> THEN [ok |-> TRUE, sel |-> TRUE]
    ELSE Bind(ParseInt(fields[IdField], 10),
              LAMBDA id : [ok |-> id.ok,
                           sel |-> id.ok /\ \E k \in 1..Len(acl) : acl[k] = id.val])

\* Datagram with the timestamp written one field too early
DatagramOffByOne(fields, ret) == Join([fields EXCEPT ![TsField - 1] = ret], ",")

\* the datagram of a paced record: "fields[14] = compWaitTS(fields[14])"
\* and "datagram = ','.join(fields)"
Datagram(fields, ret) == Join([fields EXCEPT ![TsField] = ret], ",")

\* what a call of sendTrafficData or sendWeatherData did.  kind says how far
\* it went: "short", "filtered", "paced" (compWaitTS returned), "weather",
\* or "raised" (an exception left the function); sent says whether
\* sock.sendto was called with payload.
Outcome(kind, sent, payload, pace) ==
    [kind |-> kind, sent |-> sent, payload |-> payload, pace |-> pace]

\* "if doSend:" and what follows it
SendIf(doSend, datagram, w) ==
    IF doSend = 0 THEN Outcome("paced", FALSE, <<>>, w)
    ELSE IF ~IsAscii(datagram) THEN Outcome("raised", FALSE, <<>>, w)
    ELSE Outcome("paced", TRUE, datagram, w)

\* the body of "if not _ac or int(fields[1]) in _ac:"
PaceAndSend(fields, doSend, clk, diff, buf, hist) ==
    Bind(compWaitTS(fields[TsField], clk, diff, buf, hist),
         LAMBDA w : IF ~w.ok THEN Outcome("raised", FALSE, <<>>, w)
                    ELSE Bind(Datagram(fields, w.ret),
                              LAMBDA datagram : SendIf(doSend, datagram, w)))

\* sendTrafficData after "fields = ln.split(',')"
HandleFields(fields, doSend, clk, diff, buf, hist, acl) ==
    IF TooShort(fields) THEN Outcome("short", FALSE, <<>>, NoPace(diff, clk))
    ELSE Bind(Selected(fields, acl),
              LAMBDA sel :
                  IF ~sel.ok THEN Outcome("raised", FALSE, <<>>, NoPace(diff, clk))
                  ELSE IF ~sel.sel THEN Outcome("filtered", FALSE, <<>>, NoPace(diff, clk))
                  ELSE PaceAndSend(fields, doSend, clk, diff, buf, hist))

\* sendTrafficData(ln, doSend) called at tick clk
sendTrafficData(ln, doSend, clk, diff, buf, hist, acl) ==
    Bind(Split(ln, ","),
         LAMBDA fields : HandleFields(fields, doSend, clk, diff, buf, hist, acl))

\* sendWeatherData that reports the line and sends nothing
sendWeatherDataSilent(ln, clk, diff) ==
    Outcome("weather", FALSE, <<>>, NoPace(diff, clk))

\* sendWeatherData(ln) called at tick clk: the line goes to the weather port
sendWeatherData(ln, clk, diff) ==
    IF ~IsAscii(ln) THEN Outcome("raised", FALSE, <<>>, NoPace(diff, clk))
    ELSE Outcome("weather", TRUE, ln, NoPace(diff, clk))

\* "line.startswith('AITFC') or line.startswith('RTTFC')"
IsTraffic(line) == StartsWith(line, AITFC) \/ StartsWith(line, RTTFC)

(***************************************************************************)
(* The user's position: class position, updateUserPos                      *)
(***************************************************************************)
\* a float: NaN, or a number (positions are whole numbers in the model)
NaN == [nan |-> TRUE, val |-> 0]
Num(v) == [nan |-> FALSE, val |-> v]

\* position(): "self.lat = float('NaN')" and so on
position ==
    [lat |-> NaN, lon |-> NaN, alt_m |-> NaN, track |-> NaN,
     gndSpd_m_per_s |-> NaN]

\* "if len(fields) >= 3" and "if len(fields) >= 6"
LatLonFields == 3
AllFields == 6

\* the assignments updateFrom makes for a line of these fields, in their
\* order: the attribute and the text given to float()
Assignments(fields) ==
    (IF Len(fields) >= LatLonFields
     THEN << <<"lat", fields[2]>>, <<"lon", fields[3]>> >>
     ELSE <<>>)
    \o (IF Len(fields) >= AllFields
        THEN << <<"alt_m", fields[4]>>, <<"track", fields[5]>>,
                <<"gndSpd_m_per_s", fields[6]>> >>
        ELSE <<>>)

\* the position after the first k assignments of todo: float() raises
\* ValueError (ok = FALSE) on a text that is no number, and what was
\* assigned before stays assigned
RECURSIVE Assign(_, _, _)
Assign(pos, todo, k) ==
    IF k = 0 THEN [ok |-> TRUE, pos |-> pos]
    ELSE Bind(Assign(pos, todo, k - 1),
              LAMBDA before :
                  IF ~before.ok THEN before
                  ELSE Bind(ParseFloat(todo[k][2]),
                            LAMBDA v :
                                IF ~v.ok THEN [ok |-> FALSE, pos |-> before.pos]
                                ELSE [ok |-> TRUE,
                                      pos |-> [before.pos EXCEPT
                                                  ![todo[k][1]] = Num(v.val)]]))

\* updateFrom with the second threshold one field too low
updateFromEarly(pos, ln) ==
    Bind(Split(ln, ","),
         LAMBDA fields :
             Bind(IF Len(fields) >= AllFields - 1
                  THEN << <<"lat", fields[2]>>, <<"lon", fields[3]>>,
                          <<"alt_m", fields[4]>>, <<"track", fields[5]>>,
                          <<"gndSpd_m_per_s", fields[Len(fields)]>> >>
                  ELSE Assignments(fields),
                  LAMBDA todo : Assign(pos, todo, Len(todo))))

\* userPos.updateFrom(ln): the position after the call, ok = FALSE when it
\* raised
updateFrom(pos, ln) ==
    Bind(Assignments(Split(ln, ",")),
         LAMBDA todo : Assign(pos, todo, Len(todo)))

\* the tag of a position record
XGPS == <<"X", "G", "P", "S">>

\* what sockPos.recv(4096) gives: a datagram that decodes to a text, or one
\* that does not
Text(t) == [kind |-> "text", text |-> t]
Undecodable == [kind |-> "undecodable", text |-> <<>>]

\* one turn of "while 1" on a datagram d: the position after it and the
\* exception it raised, "none" when it raised none
HandleDatagram(pos, d) ==
    IF d.kind = "undecodable" THEN [pos |-> pos, exc |-> "UnicodeDecodeError"]
    ELSE IF StartsWith(d.text, XGPS)
         THEN Bind(updateFrom(pos, d.text),
                   LAMBDA u : [pos |-> u.pos,
                               exc |-> IF u.ok THEN "none" ELSE "ValueError"])
         ELSE [pos |-> pos, exc |-> "none"]

\* the loop on the first k datagrams of burst; recv raises last when the
\* burst is used up
RECURSIVE Drain(_, _, _, _)
Drain(pos, burst, k, last) ==
    IF k = 0 THEN [pos |-> pos, exc |-> "none"]
    ELSE Bind(Drain(pos, burst, k - 1, last),
              LAMBDA before : IF before.exc # "none" THEN before
                              ELSE HandleDatagram(before.pos, burst[k]))

\* Caught for an except clause that names BlockingIOError
CaughtNoDataOnly(exc) == exc = "BlockingIOError"

\* "except:" names no class: it catches every exception
Caught(exc) == TRUE

\* updateUserPos() when recv gives the datagrams of burst and then raises
\* last: the position after it, and whether an exception left the function
updateUserPos(pos, burst, last) ==
    Bind(Drain(pos, burst, Len(burst), last),
         LAMBDA r : Bind(IF r.exc = "none" THEN last ELSE r.exc,
                         LAMBDA exc : [pos |-> r.pos, exc |-> exc,
                                       raised |-> ~Caught(exc)]))

(***************************************************************************)
(* Command line                                                            *)
(***************************************************************************)
\* an option that was not given (None) or given with a text
NotGiven == [given |-> FALSE, text |-> <<>>]
Given(t) == [given |-> TRUE, text |-> t]

\* [int(x, base) for x in text.split(',')]
ParseAll(text, base) ==
    Bind(Split(text, ","),
         LAMBDA items : [k \in 1..Len(items) |-> ParseInt(items[k], base).val])

\* BuildAc that reads the ids of -a as decimal numbers
BuildAcDecimal(aircraft, aircraftDecimal) ==
    (IF aircraft.given THEN ParseAll(aircraft.text, 10) ELSE <<>>)
    \o (IF aircraftDecimal.given THEN ParseAll(aircraftDecimal.text, 0) ELSE <<>>)

\* the list _ac: the ids of -a read as hexadecimal, then those of -d read
\* with base 0
BuildAc(aircraft, aircraftDecimal) ==
    (IF aircraft.given THEN ParseAll(aircraft.text, 16) ELSE <<>>)
    \o (IF aircraftDecimal.given THEN ParseAll(aircraftDecimal.text, 0) ELSE <<>>)

(***************************************************************************)
(* Inputs the replay is run on                                             *)
(***************************************************************************)
\* the 15 fields of a traffic record: tag, id, 12 more, timestamp
TrafficFields(tag, id, ts) ==
    <<tag, id, <<"a">>, <<>>, <<>>, <<>>, <<>>, <<>>, <<>>, <<>>, <<>>, <<>>,
      <<>>, <<"b">>, ts>>

\* aircraft 16 at second 5
RecA == Join(TrafficFields(AITFC, <<"1", "6">>, <<"5">>), ",") \o <<"\n">>
\* aircraft 10 at second 7
RecB == Join(TrafficFields(AITFC, <<"1", "0">>, <<"7">>), ",") \o <<"\n">>
\* aircraft 16 at second 7, with a 16th field and whitespace around the line
RecPadded ==
    <<" ">> \o Join(TrafficFields(RTTFC, <<"1", "6">>, <<"7">>) \o <<<<"z">>>>, ",")
    \o <<" ", "\n">>
\* a traffic line of 3 fields
RecShort == Join(<<AITFC, <<"1", "6">>, <<"5">>>>, ",") \o <<"\n">>
\* a traffic line whose id is no number
RecBadId == Join(TrafficFields(AITFC, <<"x">>, <<"5">>), ",") \o <<"\n">>
\* a traffic line whose timestamp is no number
RecBadTs == Join(TrafficFields(AITFC, <<"1", "6">>, <<"x">>), ",") \o <<"\n">>
\* weather: the tag in lower case
WxLower == <<"a", "i", "t", "f", "c", ",", "5", "\n">>
\* weather with whitespace around and inside the line
WxPadded == <<" ", "W", " ", "5", "\t", "\n">>
\* weather with a character outside ASCII
WxNonAscii == <<"W", NonAscii, "\n">>

Lines ==
    {RecA, RecB, RecPadded, RecShort, RecBadId, RecBadTs, WxLower, WxPadded,
     WxNonAscii}

Files == UNION {[1..n -> Lines] : n \in 1..MaxLines}

\* -a 10 and -d 10,0x10
AircraftArgs == {NotGiven, Given(<<"1", "0">>)}
AircraftDecimalArgs == {NotGiven, Given(<<"1", "0", ",", "0", "x", "1", "0">>)}
\* -b and --historic, in seconds
BufPeriods == {0, 1}
Historics == {0, 1}
\* the wall clock when the replay starts, in ticks
StartTicks == {5 * TicksPerSec, 6 * TicksPerSec + 1}
\* ticks that pass while one line is read and handled
ProcTicks == {0, 1}

\* a line of n fields that begins with the tag XGPS; fields 1 to 5 are
\* 51, 8, 100, 90 and 60
PosFields == <<XGPS, <<"5", "1">>, <<"8">>, <<"1", "0", "0">>, <<"9", "0">>,
               <<"6", "0">>, <<"1">>>>
PosLine(n) == Join(SubSeq(PosFields, 1, n), ",")
\* a position record of 3 fields: 50 and 7
PosShort == Join(<<XGPS, <<"5", "0">>, <<"7">>>>, ",")
\* a position record of 6 fields with a text that is no number in field 3
PosBadAlt ==
    Join(<<XGPS, <<"5", "3">>, <<"6">>, <<"x">>, <<"9", "0">>, <<"6", "0">>>>, ",")
\* a datagram of another kind
NoPos == <<"X", "A", "T", "T", ",", "1", ",", "2", ",", "3">>

\* what one poll finds on sockPos: the datagrams in the buffer, and the
\* exception recv raises once they are read (no data is BlockingIOError
\* on the socket that does not block)
Polls ==
    {<<<<>>, e>> : e \in {"BlockingIOError", "OSError", "KeyboardInterrupt"}}
    \cup {<<<<Text(d)>>, "BlockingIOError">> :
             d \in {PosShort, PosLine(6), PosBadAlt, NoPos}}
    \cup {<<<<Undecodable>>, "BlockingIOError">>,
          <<<<Text(NoPos), Text(PosShort)>>, "BlockingIOError">>}

\* the input files of the replays that listen for the user's position
FilesUserPos == UNION {[1..n -> {RecA, RecB, WxLower}] : n \in 1..MaxLines}

\* the value of intr while no interrupt has arrived
NoInterrupt == -1

(***************************************************************************)
(* State                                                                   *)
(***************************************************************************)
VARIABLES
    args,       \* the parsed command line: inFile, aircraft, aircraftDecimal,
                \* bufPeriod, historic, loop, getUserPos
    _ac,        \* the list of selected aircraft
    _tsDiff,    \* the pacing offset, 0 while it is not computed
    _sendLn,    \* 0 when the next traffic line is not to be sent
    pos,        \* lines of args.inFile read in this pass
    pass,       \* the pass over the file, from 1
    clock,      \* the wall clock, in ticks
    procTicks,  \* ticks the machine takes per line
    pc,         \* "run", "done" (the loop was left), "error" (an exception
                \* ended the process), "killed" (KeyboardInterrupt ended
                \* it), "exit" (the last statement was executed)
    log,        \* one entry per line handled: what was done with it
    userPos,    \* the one object of class position
    polled,     \* updateUserPos has returned in this turn of the for loop
    open,       \* what is open of args.inFile, sock and sockPos
    intr        \* the length of log when the first KeyboardInterrupt
                \* arrived, NoInterrupt before

vars ==
    <<args, _ac, _tsDiff, _sendLn, pos, pass, clock, procTicks, pc, log,
      userPos, polled, open, intr>>

\* what is opened before the replay loop: argparse opens the file, then
\* the two sockets are made
Opened(getUserPos) ==
    {"inFile", "sock"} \cup (IF getUserPos THEN {"sockPos"} ELSE {})

Init ==
    /\ args \in [inFile : Files, aircraft : AircraftArgs,
                 aircraftDecimal : AircraftDecimalArgs, bufPeriod : BufPeriods,
                 historic : Historics, loop : BOOLEAN, getUserPos : {FALSE}]
    /\ _ac = BuildAc(args.aircraft, args.aircraftDecimal)
    /\ _tsDiff = 0
    /\ _sendLn = 1
    /\ pos = 0
    /\ pass = 1
    /\ clock \in StartTicks
    /\ procTicks \in ProcTicks
    /\ pc = "run"
    /\ log = <<>>
    /\ userPos = position
    /\ polled = FALSE
    /\ open = Opened(args.getUserPos)
    /\ intr = NoInterrupt

\* the line the for loop yields next, stripped
Line == Strip(args.inFile[pos + 1])

\* the entry of the log for the line just handled by a call with result r
Entry(r, doSend, after) ==
    [pass |-> pass, idx |-> pos + 1, kind |-> r.kind, sent |-> r.sent,
     dest |-> IF ~r.sent THEN "none"
              ELSE IF r.kind = "weather" THEN "weather" ELSE "traffic",
     payload |-> r.payload, called |-> r.pace.ok, now |-> r.pace.now,
     rawTs |-> r.pace.rawTs, target |-> r.pace.target, wait |-> r.pace.wait,
     fresh |-> r.pace.fresh, buf |-> r.pace.buf, diff |-> r.pace.tsDiff,
     read |-> clock + procTicks, at |-> r.pace.clock,
     doSend |-> doSend, sendLn |-> after]

\* the variables nothing of the replay loop assigns
Fixed == <<_ac, procTicks, userPos, open, intr>>

\* "if args.getUserPos: updateUserPos()" is behind: the line can be handled
Ready == args.getUserPos => polled

\* one iteration of the for loop on a traffic line
Traffic ==
    /\ pc = "run"
    /\ pos < Len(args.inFile)
    /\ Ready
    /\ polled' = FALSE
    /\ \E line \in {Line} :
          /\ IsTraffic(line)
          /\ \E r \in {sendTrafficData(line, _sendLn, clock + procTicks, _tsDiff,
                                       args.bufPeriod, args.historic, _ac)} :
             \E after \in {IF r.kind = "raised" THEN _sendLn ELSE 1} :
                /\ _tsDiff' = r.pace.tsDiff
                /\ clock' = r.pace.clock
                /\ _sendLn' = after
                /\ pos' = IF r.kind = "raised" THEN pos ELSE pos + 1
                /\ pc' = IF r.kind = "raised" THEN "error" ELSE "run"
                /\ log' = Append(log, Entry(r, _sendLn, after))
    /\ UNCHANGED <<args, pass, Fixed>>

\* one iteration of the for loop on any other line
Weather ==
    /\ pc = "run"
    /\ pos < Len(args.inFile)
    /\ Ready
    /\ polled' = FALSE
    /\ \E line \in {Line} :
          /\ ~IsTraffic(line)
          /\ \E r \in {sendWeatherData(line, clock + procTicks, _tsDiff)} :
                /\ clock' = r.pace.clock
                /\ pos' = IF r.kind = "raised" THEN pos ELSE pos + 1
                /\ pc' = IF r.kind = "raised" THEN "error" ELSE "run"
                /\ log' = Append(log, Entry(r, _sendLn, _sendLn))
    /\ UNCHANGED <<args, _tsDiff, _sendLn, pass, Fixed>>

\* Finish with the test of args.loop the wrong way round
FinishInverted ==
    /\ pc = "run"
    /\ pos = Len(args.inFile)
    /\ args.loop
    /\ pc' = "done"
    /\ UNCHANGED <<args, _tsDiff, _sendLn, pos, pass, clock, log, polled, Fixed>>

\* end of file without --loop: "if (not args.loop): break"
Finish ==
    /\ pc = "run"
    /\ pos = Len(args.inFile)
    /\ ~args.loop
    /\ pc' = "done"
    /\ UNCHANGED <<args, _tsDiff, _sendLn, pos, pass, clock, log, polled, Fixed>>

\* Rewind that does not clear _sendLn
RewindSendAll ==
    /\ pc = "run"
    /\ pos = Len(args.inFile)
    /\ args.loop
    /\ pass < MaxPass
    /\ args' = [args EXCEPT !.bufPeriod = 0]
    /\ pos' = 0
    /\ _tsDiff' = 0
    /\ pass' = pass + 1
    /\ UNCHANGED <<_sendLn, clock, pc, log, polled, Fixed>>

\* Rewind that keeps args.bufPeriod
RewindKeepBuf ==
    /\ pc = "run"
    /\ pos = Len(args.inFile)
    /\ args.loop
    /\ pass < MaxPass
    /\ _sendLn' = 0
    /\ pos' = 0
    /\ _tsDiff' = 0
    /\ pass' = pass + 1
    /\ UNCHANGED <<args, clock, pc, log, polled, Fixed>>

\* end of file with --loop: the three assignments after the for loop and
\* "_tsDiff = 0" at the head of the while loop
Rewind ==
    /\ pc = "run"
    /\ pos = Len(args.inFile)
    /\ args.loop
    /\ pass < MaxPass
    /\ _sendLn' = 0
    /\ args' = [args EXCEPT !.bufPeriod = 0]
    /\ pos' = 0
    /\ _tsDiff' = 0
    /\ pass' = pass + 1
    /\ UNCHANGED <<clock, pc, log, polled, Fixed>>

Next == Traffic \/ Weather \/ Finish \/ Rewind

\* "if args.getUserPos: updateUserPos()" at the head of a turn of the for
\* loop.  A KeyboardInterrupt that arrives in recv is an exception of the
\* try block like any other.
Poll ==
    /\ pc = "run"
    /\ pos < Len(args.inFile)
    /\ args.getUserPos
    /\ ~polled
    /\ \E poll \in Polls :
       \E r \in {updateUserPos(userPos, poll[1], poll[2])} :
          /\ userPos' = r.pos
          /\ pc' = IF r.raised THEN "error" ELSE "run"
          /\ polled' = ~r.raised
          /\ intr' = IF r.exc = "KeyboardInterrupt" /\ intr = NoInterrupt
                     THEN Len(log) ELSE intr
    /\ UNCHANGED <<args, _ac, _tsDiff, _sendLn, pos, pass, clock, procTicks,
                   log, open>>

\* a KeyboardInterrupt outside updateUserPos, while a line is read or
\* handled: no except clause is around the replay loop, the exception ends
\* the process where it is and the statements after the loop are not
\* executed
Interrupt ==
    /\ pc = "run"
    /\ pc' = "killed"
    /\ intr' = IF intr = NoInterrupt THEN Len(log) ELSE intr
    /\ UNCHANGED <<args, _ac, _tsDiff, _sendLn, pos, pass, clock, procTicks,
                   log, userPos, polled, open>>

\* a KeyboardInterrupt in time.sleep of compWaitTS: _tsDiff is assigned,
\* the datagram is not sent
InterruptInWait ==
    /\ pc = "run"
    /\ pos < Len(args.inFile)
    /\ Ready
    /\ \E line \in {Line} :
          /\ IsTraffic(line)
          /\ \E r \in {sendTrafficData(line, _sendLn, clock + procTicks, _tsDiff,
                                       args.bufPeriod, args.historic, _ac)} :
                /\ r.pace.ok
                /\ r.pace.wait > 0
                /\ _tsDiff' = r.pace.tsDiff
                /\ clock' = clock + procTicks
    /\ pc' = "killed"
    /\ intr' = IF intr = NoInterrupt THEN Len(log) ELSE intr
    /\ UNCHANGED <<args, _ac, _sendLn, pos, pass, procTicks, log, userPos,
                   polled, open>>

\* what the statements after the loop close: "args.inFile.close",
\* "sock.close" and "sockPos.close" name the method and do not call it
ClosedByCleanup == {}

\* the statements after the replay loop
Cleanup ==
    /\ pc = "done"
    /\ pc' = "exit"
    /\ open' = open \ ClosedByCleanup
    /\ UNCHANGED <<args, _ac, _tsDiff, _sendLn, pos, pass, clock, procTicks,
                   log, userPos, polled, intr>>

\* the replay with -u or without, under interrupts
NextUserPos ==
    \/ Poll \/ Traffic \/ Weather \/ Finish \/ Rewind
    \/ Interrupt \/ InterruptInWait \/ Cleanup

InitUserPos ==
    /\ args \in [inFile : FilesUserPos, aircraft : {NotGiven},
                 aircraftDecimal : {NotGiven}, bufPeriod : {0},
                 historic : {0}, loop : BOOLEAN, getUserPos : BOOLEAN]
    /\ _ac = BuildAc(args.aircraft, args.aircraftDecimal)
    /\ _tsDiff = 0
    /\ _sendLn = 1
    /\ pos = 0
    /\ pass = 1
    /\ clock \in StartTicks
    /\ procTicks = 1
    /\ pc = "run"
    /\ log = <<>>
    /\ userPos = position
    /\ polled = FALSE
    /\ open = Opened(args.getUserPos)
    /\ intr = NoInterrupt

SpecUserPos == InitUserPos /\ [][NextUserPos]_vars

Spec == Init /\ [][Next]_vars

\* the replay with --historic left at its default
InitNoHistoric == Init /\ args.historic = 0
SpecNoHistoric == InitNoHistoric /\ [][Next]_vars

\* the interpreter does not stop by itself: a step that can be taken is
\* taken.  --historic is left at its default: it changes the text of the
\* timestamp and nothing that decides whether the loop goes on.
FairSpec == SpecNoHistoric /\ WF_vars(Next)

(***************************************************************************)
(* Reading the log                                                         *)
(*                                                                         *)
(* The log only grows, and an entry is never changed: a property of the    *)
(* newest entry that holds in every reachable state holds of every entry.  *)
(***************************************************************************)
Newest == log[Len(log)]

\* line i of the input without its line terminator
InputLine(i) ==
    IF args.inFile[i] # <<>> /\ args.inFile[i][Len(args.inFile[i])] = "\n"
    THEN SubSeq(args.inFile[i], 1, Len(args.inFile[i]) - 1)
    ELSE args.inFile[i]

\* the ids the command line selects: 10 in -a is 16, and -d 10,0x10 gives
\* 10 and 16
SelectedIds ==
    (IF args.aircraft.given THEN {16} ELSE {})
    \cup (IF args.aircraftDecimal.given THEN {10, 16} ELSE {})

\* the text begins with one of the two traffic tags
HasTag(t) ==
    \/ (Len(t) >= 5 /\ SubSeq(t, 1, 5) = <<"A", "I", "T", "F", "C">>)
    \/ (Len(t) >= 5 /\ SubSeq(t, 1, 5) = <<"R", "T", "T", "F", "C">>)

\* the first line of the input that carries a traffic tag, 0 when none does
FirstTagged ==
    IF \E i \in 1..Len(args.inFile) : HasTag(Strip(args.inFile[i]))
    THEN Min({i \in 1..Len(args.inFile) : HasTag(Strip(args.inFile[i]))})
    ELSE 0

\* the entries of compWaitTS calls that came before entry k in its pass
CallsBefore(k) ==
    {j \in 1..(k - 1) : log[j].pass = log[k].pass /\ log[j].called}

\* tsDiff and _sendLn before the line of entry k was handled
DiffBefore(k) ==
    IF k = 1 \/ log[k - 1].pass # log[k].pass THEN 0 ELSE log[k - 1].diff

(***************************************************************************)
(* C1                                                                      *)
(***************************************************************************)
\* what C1 says of the entry e of a traffic line with fields f: filtered
\* out means no datagram, selected means one datagram to the traffic port
C1_Filter(e, f, id) ==
    IF SelectedIds # {} /\ id.val \notin SelectedIds
    THEN ~e.sent
    ELSE e.sent /\ e.dest = "traffic"

\* C1 as claimed: for every traffic line with at least 15 fields, a numeric
\* id and a numeric timestamp, no datagram is emitted when the filter is not
\* empty and does not hold the id, and exactly one datagram goes to the
\* traffic destination otherwise.
C1_Original ==
    log # <<>> =>
        \A line \in {Strip(args.inFile[Newest.idx])} :
            HasTag(line) =>
                \A f \in {Split(line, ",")} :
                    (/\ Len(f) >= 15
                     /\ ParseInt(f[2], 10).ok
                     /\ ParseFloat(f[15]).ok
                     /\ IsAscii(line))
                    => C1_Filter(Newest, f, ParseInt(f[2], 10))

\* C1 amended: the same, except that the first traffic-tagged line of the
\* input is not emitted in a pass after the first; the id is not read when
\* the filter is empty; and the list _ac holds exactly the ids of the
\* hexadecimal and of the decimal list.
C1_FilterDecides ==
    /\ {_ac[k] : k \in 1..Len(_ac)} = SelectedIds
    /\ log # <<>> =>
        \A line \in {Strip(args.inFile[Newest.idx])} :
            HasTag(line) =>
                \A f \in {Split(line, ",")} :
                    (/\ Len(f) >= 15
                     /\ (SelectedIds = {} \/ ParseInt(f[2], 10).ok)
                     /\ ParseFloat(f[15]).ok
                     /\ IsAscii(line))
                    => IF Newest.pass > 1 /\ Newest.idx = FirstTagged
                       THEN ~Newest.sent
                       ELSE C1_Filter(Newest, f, ParseInt(f[2], 10))

\* a filter is set, one record was filtered out, one was sent, and the
\* first record of a later pass was selected and not sent
C1_Witness ==
    /\ _ac # <<>>
    /\ \E k \in 1..Len(log) : log[k].kind = "filtered"
    /\ \E k \in 1..Len(log) : log[k].sent /\ log[k].dest = "traffic"
    /\ \E k \in 1..Len(log) :
          log[k].pass > 1 /\ log[k].kind = "paced" /\ ~log[k].sent

(***************************************************************************)
(* C2                                                                      *)
(***************************************************************************)
\* the fields of text out are those of text in, but for the timestamp
SameButTimestamp(out, in) ==
    \A g \in {Split(out, ",")} : \A f \in {Split(in, ",")} :
        /\ Len(g) = Len(f)
        /\ \A i \in 1..Len(f) : i # 15 => g[i] = f[i]

\* C2 as claimed: an emitted traffic datagram has the fields of the input
\* line, but for field 14.
C2_Original ==
    (log # <<>> /\ Newest.sent /\ Newest.dest = "traffic")
    => SameButTimestamp(Newest.payload, InputLine(Newest.idx))

\* C2 amended: an emitted traffic datagram has the fields of the input line
\* with the whitespace at both its ends removed, but for field 14.
C2_OnlyTimestampRewritten ==
    (log # <<>> /\ Newest.sent /\ Newest.dest = "traffic")
    => SameButTimestamp(Newest.payload, Strip(InputLine(Newest.idx)))

\* a record of 16 fields with whitespace around it was emitted
C2_Witness ==
    /\ log # <<>> /\ Newest.sent /\ Newest.dest = "traffic"
    /\ Strip(InputLine(Newest.idx)) # InputLine(Newest.idx)
    /\ Len(Split(Newest.payload, ",")) = 16

(***************************************************************************)
(* C3                                                                      *)
(***************************************************************************)
\* C3 as claimed: a traffic line of fewer than 15 fields emits nothing,
\* raises nothing, and leaves the replay as it found it (tsDiff, the filter
\* and the flag that suppresses the next traffic line), so that what follows
\* is handled as if the line were absent.
C3_Original ==
    (log # <<>> /\ Newest.kind = "short")
    => /\ ~Newest.sent
       /\ pc # "error"
       /\ Newest.diff = DiffBefore(Len(log))
       /\ {_ac[k] : k \in 1..Len(_ac)} = SelectedIds
       /\ Newest.sendLn = Newest.doSend

(***************************************************************************)
(* C4                                                                      *)
(***************************************************************************)
\* C4 as claimed: once compWaitTS has set tsDiff in a pass, tsDiff has that
\* value after every later line of the pass.
C4_Original ==
    \A k \in 1..Len(log) : \A j \in CallsBefore(k) : log[k].diff = log[j].diff

(***************************************************************************)
(* C5                                                                      *)
(***************************************************************************)
\* C5: compWaitTS reads the clock in whole seconds, aims at rawTs + tsDiff,
\* waits target - now when that is positive and not at all otherwise, and a
\* datagram never leaves before the wall clock has reached the target.
C5_NoEarlySend ==
    (log # <<>> /\ Newest.called) =>
        /\ ParseFloat(Split(Strip(args.inFile[Newest.idx]), ",")[15]) =
              [ok |-> TRUE, val |-> Newest.rawTs]
        /\ Newest.target = Newest.rawTs + Newest.diff
        /\ Newest.now * TicksPerSec <= Newest.read
        /\ Newest.wait >= 0
        /\ Newest.target > Newest.now =>
              /\ Newest.wait = Newest.target - Newest.now
              /\ Newest.at = Newest.read + Newest.wait * TicksPerSec
        /\ Newest.target <= Newest.now =>
              /\ Newest.wait = 0
              /\ Newest.at = Newest.read
        /\ Newest.at >= Newest.target * TicksPerSec

\* one record was sent at once because its target lay in the past, and a
\* later one after a wait
C5_Witness ==
    /\ \E k \in 1..Len(log) :
          /\ log[k].sent /\ log[k].called
          /\ log[k].target < log[k].now /\ log[k].at = log[k].read
    /\ log # <<>> /\ Newest.sent /\ Newest.called /\ Newest.wait > 0
    /\ Newest.read > Newest.now * TicksPerSec

(***************************************************************************)
(* C6                                                                      *)
(***************************************************************************)
\* C6 as claimed: the first paced record of a pass is emitted with the
\* timestamp W0 - B, and a later record of the pass with raw timestamp T is
\* paced against T + (W0 - T0 - B).
C6_Original ==
    (log # <<>> /\ Newest.called) =>
        IF CallsBefore(Len(log)) = {}
        THEN Newest.sent =>
                 Split(Newest.payload, ",")[15] = StrFloat(Newest.now - Newest.buf)
        ELSE \A j \in {Min(CallsBefore(Len(log)))} :
                 Newest.target =
                     Newest.rawTs + (log[j].now - log[j].rawTs - log[j].buf)

(***************************************************************************)
(* C7                                                                      *)
(***************************************************************************)
\* the lines whose traffic datagrams were emitted, in the order of emission
EmittedTraffic ==
    [k \in 1..Len(SelectSeq(log, LAMBDA e : e.sent /\ e.dest = "traffic")) |->
        SelectSeq(log, LAMBDA e : e.sent /\ e.dest = "traffic")[k].idx]

\* C7: in a pass after the first, the first traffic-tagged line of the input
\* is not emitted, and every other line is handled as in the first pass: the
\* same kind of handling, a datagram or none, the same destination, and the
\* same payload but for the timestamp.  Two records that are both emitted in
\* the first pass are emitted as 1, 2, 2, 2, ...
C7_FirstRecordNotRepeated ==
    /\ (log # <<>> /\ Newest.pass > 1) =>
          IF Newest.idx = FirstTagged
          THEN ~Newest.sent
          ELSE \A first \in {log[Newest.idx]} :
                  /\ first.pass = 1 /\ first.idx = Newest.idx
                  /\ Newest.kind = first.kind
                  /\ Newest.sent = first.sent
                  /\ Newest.dest = first.dest
                  /\ Newest.dest = "weather" => Newest.payload = first.payload
                  /\ Newest.dest = "traffic" =>
                        SameButTimestamp(Newest.payload, first.payload)
    /\ (Len(args.inFile) = 2 /\ Len(log) >= 2 /\ log[1].sent /\ log[2].sent
        /\ log[1].dest = "traffic" /\ log[2].dest = "traffic") =>
          \A k \in 1..Len(EmittedTraffic) :
              EmittedTraffic[k] = IF k = 1 THEN 1 ELSE 2

\* two records, the third pass: emitted were record 1, 2, 2 and 2
C7_Witness ==
    /\ Len(args.inFile) = 2 /\ pass = 3 /\ pos = 2
    /\ EmittedTraffic = <<1, 2, 2, 2>>

(***************************************************************************)
(* C8                                                                      *)
(***************************************************************************)
\* C8: tsDiff is unset when a pass starts, so the first compWaitTS call of
\* every pass computes it; after the first pass the buffer period is 0, and
\* the first paced record of such a pass aims at the time at which it is
\* handled.
C8_LaterPassesUnbuffered ==
    /\ (pos = 0 /\ pc = "run") => _tsDiff = 0
    /\ pass > 1 => args.bufPeriod = 0
    /\ (log # <<>> /\ Newest.called) =>
          /\ CallsBefore(Len(log)) = {} => Newest.fresh
          /\ Newest.pass > 1 => Newest.buf = 0
          /\ (Newest.pass > 1 /\ CallsBefore(Len(log)) = {}) =>
                /\ Newest.target = Newest.now
                /\ Newest.now = Newest.read \div TicksPerSec

\* a replay started with a buffer period has paced the first record of a
\* later pass
C8_Witness ==
    /\ log # <<>> /\ Newest.called /\ Newest.pass > 1
    /\ CallsBefore(Len(log)) = {}
    /\ log[1].called /\ log[1].buf > 0

(***************************************************************************)
(* C9                                                                      *)
(***************************************************************************)
\* every line can be handled without an exception
WellFormedInput ==
    \A i \in 1..Len(args.inFile) :
        \A line \in {Strip(args.inFile[i])} :
            /\ IsAscii(line)
            /\ HasTag(line) =>
                  \A f \in {Split(line, ",")} :
                      /\ Len(f) >= 15
                      /\ ParseInt(f[2], 10).ok
                      /\ ParseFloat(f[15]).ok

\* every line of the input was handled once, in the order of the input
HandledOnceInOrder ==
    /\ Len(log) = Len(args.inFile)
    /\ \A k \in 1..Len(log) :
          log[k].idx = k /\ log[k].pass = 1 /\ log[k].kind # "raised"

\* C9: without --loop a well-formed input is handled to its end, line by
\* line, and the replay is left; with --loop the replay is never left, and
\* the step at the end of the input starts the next pass at the first line.
C9_EndOfInput ==
    /\ (~args.loop /\ WellFormedInput) => <>(pc = "done")
    /\ [](pc = "done" => (~args.loop /\ HandledOnceInOrder))
    /\ [][(args.loop /\ pc = "run" /\ pos = Len(args.inFile))
           => (pc' = "run" /\ pos' = 0 /\ pass' = pass + 1)]_vars

\* the replay of two lines was left
C9_Witness == pc = "done" /\ Len(log) = 2 /\ ~args.loop

(***************************************************************************)
(* C10                                                                     *)
(***************************************************************************)
\* C10 as claimed: an input line that does not begin with a traffic tag is
\* sent as it is to the weather destination.
C10_Original ==
    (log # <<>> /\ ~HasTag(InputLine(Newest.idx))) =>
        /\ Newest.sent /\ Newest.dest = "weather"
        /\ Newest.payload = InputLine(Newest.idx)

\* C10 amended: the whitespace at both ends of the line is removed first.
\* What is left, if it does not begin with a traffic tag and is ASCII, is
\* sent to the weather destination, unparsed, unfiltered and unpaced.
C10_WeatherForwarded ==
    log # <<>> =>
        \A line \in {Strip(InputLine(Newest.idx))} :
            (~HasTag(line) /\ IsAscii(line)) =>
                /\ Newest.kind = "weather"
                /\ Newest.sent /\ Newest.dest = "weather"
                /\ Newest.payload = line
                /\ ~Newest.called /\ Newest.wait = 0 /\ Newest.at = Newest.read
                /\ Newest.diff = DiffBefore(Len(log))
                /\ Newest.sendLn = Newest.doSend

\* a weather line with whitespace around it was forwarded while a filter
\* was set and tsDiff had been computed
C10_Witness ==
    /\ log # <<>> /\ Newest.kind = "weather" /\ Newest.sent
    /\ Newest.payload # InputLine(Newest.idx)
    /\ _ac # <<>> /\ Newest.diff # 0

(***************************************************************************)
(* C11                                                                     *)
(***************************************************************************)
\* the timestamp a traffic datagram carries
TsOf(payload) == ParseFloat(Split(payload, ",")[15])

\* the call that made the newest entry, made again from the same line, the
\* same flag, the same clock, the same tsDiff, the same buffer period and
\* the same filter, with the historic offset h
Replayed(h) ==
    sendTrafficData(Strip(args.inFile[Newest.idx]), Newest.doSend, Newest.read,
                    DiffBefore(Len(log)), Newest.buf, h, _ac)

\* C11: an emitted traffic datagram carries rawTs + tsDiff - historic; and a
\* run that differs in nothing but the historic offset does, line by line,
\* the same: the same outcome, the same tsDiff, the same wait, the same time
\* of sending, the same datagram but for the timestamp, which is as much
\* less as the offset is more.
C11_HistoricOnlyInTimestamp ==
    (log # <<>> /\ HasTag(Strip(args.inFile[Newest.idx]))) =>
        /\ (Newest.sent /\ Newest.dest = "traffic") =>
              TsOf(Newest.payload) =
                  [ok |-> TRUE,
                   val |-> Newest.rawTs + Newest.diff - args.historic]
        /\ \A h \in Historics : \A r \in {Replayed(h)} :
              /\ r.kind = Newest.kind
              /\ r.sent = Newest.sent
              /\ r.pace.ok = Newest.called
              /\ r.pace.tsDiff = Newest.diff
              /\ r.pace.wait = Newest.wait
              /\ r.pace.clock = Newest.at
              /\ r.sent =>
                    /\ SameButTimestamp(r.payload, Newest.payload)
                    /\ TsOf(r.payload).ok
                    /\ TsOf(r.payload).val + h
                          = TsOf(Newest.payload).val + args.historic

\* a record was sent after a wait in a run with a historic offset, and the
\* same run without the offset sends another timestamp
C11_Witness ==
    /\ log # <<>> /\ Newest.sent /\ Newest.dest = "traffic"
    /\ args.historic = 1 /\ Newest.wait > 0
    /\ TsOf(Replayed(0).payload).val = TsOf(Newest.payload).val + 1

(***************************************************************************)
(* C12                                                                     *)
(***************************************************************************)
\* the newest entry is that of a traffic line of at least 15 fields whose
\* id is no number
NewestHasBadId ==
    /\ log # <<>>
    /\ \A line \in {Strip(args.inFile[Newest.idx])} :
          /\ HasTag(line)
          /\ \A f \in {Split(line, ",")} :
                Len(f) >= 15 /\ ~ParseInt(f[2], 10).ok

\* C12 as claimed: a traffic record of at least 15 fields whose id is no
\* number is fatal: no datagram for it, and the replay has stopped.
C12_Original ==
    NewestHasBadId => (~Newest.sent /\ Newest.kind = "raised" /\ pc = "error")

\* C12 amended: such a record is fatal when an aircraft filter is set: no
\* datagram for it, the replay has stopped at that line, and no step follows
\* a fatal error.  Without a filter the id is not read and the record is
\* paced and sent as any other.
C12_BadIdFatalWhenFiltering ==
    /\ [](NewestHasBadId =>
            IF _ac # <<>>
            THEN /\ ~Newest.sent /\ Newest.kind = "raised" /\ ~Newest.called
                 /\ pc = "error" /\ pos = Newest.idx - 1
                 /\ Len(log) = (Newest.pass - 1) * Len(args.inFile) + Newest.idx
            ELSE \A line \in {Strip(args.inFile[Newest.idx])} :
                    (IsAscii(line) /\ ParseFloat(Split(line, ",")[15]).ok) =>
                        /\ Newest.kind = "paced" /\ pc # "error"
                        /\ Newest.sent = (Newest.doSend # 0))
    /\ [][pc # "error"]_vars

\* with a filter set, the first of two lines had an id that is no number:
\* the replay stopped with the second line unread
C12_Witness ==
    /\ NewestHasBadId /\ _ac # <<>> /\ pc = "error"
    /\ Len(args.inFile) = 2 /\ Newest.idx = 1 /\ Len(log) = 1

(***************************************************************************)
(* C13                                                                     *)
(***************************************************************************)
\* C13: of a line of n fields whose fields are numbers, updateFrom takes
\* nothing when n < 3, latitude and longitude when n is 3, 4 or 5 and all
\* five values when n >= 6, and leaves the other values as they were; the
\* five values are NaN when the replay starts and change in a poll only.
\* Checked for the position the replay has reached, whatever it is.
C13_UpdateFrom ==
    /\ userPos = position
    /\ [](\A n \in 1..Len(PosFields) : \A u \in {updateFrom(userPos, PosLine(n))} :
            /\ u.ok
            /\ n < 3 => u.pos = userPos
            /\ n \in 3..5 =>
                  u.pos = [userPos EXCEPT !.lat = Num(51), !.lon = Num(8)]
            /\ n >= 6 =>
                  u.pos = [lat |-> Num(51), lon |-> Num(8), alt_m |-> Num(100),
                           track |-> Num(90), gndSpd_m_per_s |-> Num(60)])
    /\ [](updateFrom(userPos, PosShort) =
            [ok |-> TRUE,
             pos |-> [userPos EXCEPT !.lat = Num(50), !.lon = Num(7)]])
    /\ [][userPos' # userPos => (args.getUserPos /\ ~polled /\ polled')]_vars

\* a line of 6 fields was taken and then one of 3: latitude and longitude
\* are those of the second, the other three values those of the first
C13_Witness ==
    userPos = [lat |-> Num(50), lon |-> Num(7), alt_m |-> Num(100),
               track |-> Num(90), gndSpd_m_per_s |-> Num(60)]

(***************************************************************************)
(* C14                                                                     *)
(***************************************************************************)
\* what handling the line of the newest entry gives when it is computed from
\* the replay state alone: the line, _sendLn, the clock, tsDiff, the buffer
\* period, the historic offset and the filter
FromReplayState ==
    IF HasTag(Strip(args.inFile[Newest.idx]))
    THEN Replayed(args.historic)
    ELSE sendWeatherData(Strip(args.inFile[Newest.idx]), Newest.read,
                         DiffBefore(Len(log)))

\* C14: whatever a poll finds on the socket, no exception leaves
\* updateUserPos and the replay goes on; a fatal error is one of a line,
\* never one of a poll; the step of a poll changes nothing but the position;
\* and what is done with a line is what the replay state alone gives,
\* with a poll before it or without.
C14_PollHarmless ==
    /\ [](\A poll \in Polls : ~updateUserPos(userPos, poll[1], poll[2]).raised)
    /\ [](pc = "error" => (log # <<>> /\ Newest.kind = "raised"))
    /\ [](log # <<>> =>
            \A r \in {FromReplayState} :
                /\ r.kind = Newest.kind /\ r.sent = Newest.sent
                /\ r.payload = Newest.payload
                /\ r.pace.tsDiff = Newest.diff /\ r.pace.clock = Newest.at)
    /\ [][(~polled /\ polled') =>
             (/\ pc' = "run"
              /\ UNCHANGED <<args, _ac, _tsDiff, _sendLn, pos, pass, clock,
                             log, open>>)]_vars

\* a poll met a position record with a text that is no number after a line
\* had been sent, and the replay is at the next line
C14_Witness ==
    /\ pc = "run" /\ polled /\ pos = 1
    /\ userPos.lat = Num(53) /\ userPos.alt_m = NaN
    /\ log # <<>> /\ Newest.sent

(***************************************************************************)
(* C15                                                                     *)
(***************************************************************************)
\* C15 as claimed: once an interrupt has arrived, wherever it arrived, no
\* datagram is emitted any more, the interrupt is handled and does not end
\* the process as an exception nobody caught, and when the process has come
\* to its end the input file and the sockets are closed.
C15_Original ==
    intr # NoInterrupt =>
        /\ \A k \in (intr + 1)..Len(log) : ~log[k].sent
        /\ pc # "killed"
        /\ pc = "exit" => open = {}

(***************************************************************************)
(* C16                                                                     *)
(***************************************************************************)
\* the entries of the pass of entry k that came before it and whose record
\* passed the field-count check and the filter
PacedBefore(k) ==
    {j \in 1..(k - 1) : log[j].pass = log[k].pass /\ log[j].kind = "paced"}

\* C16 as claimed: with --loop and a filter, the first record of a later
\* pass that passes the field-count check and the filter is not emitted,
\* whatever lines precede it.
C16_Original ==
    (/\ log # <<>> /\ _ac # <<>> /\ Newest.pass > 1
     /\ Newest.kind = "paced" /\ PacedBefore(Len(log)) = {})
    => ~Newest.sent

(***************************************************************************)
(* C17                                                                     *)
(***************************************************************************)
\* line i of the input is a traffic record that is well-formed and passes
\* the filter
Emittable(i) ==
    \A line \in {Strip(args.inFile[i])} :
        /\ HasTag(line)
        /\ IsAscii(line)
        /\ \A f \in {Split(line, ",")} :
              /\ Len(f) >= 15
              /\ ParseFloat(f[15]).ok
              /\ ParseInt(f[2], 10).ok
              /\ SelectedIds # {} => ParseInt(f[2], 10).val \in SelectedIds

\* C17 as claimed: with --loop and an input that holds such a record, every
\* pass has emitted a traffic datagram when it reaches the end of the input.
C17_Original ==
    (/\ args.loop /\ pc = "run" /\ pos = Len(args.inFile)
     /\ \E i \in 1..Len(args.inFile) : Emittable(i))
    => \E k \in 1..Len(log) :
          log[k].pass = pass /\ log[k].sent /\ log[k].dest = "traffic"

=============================================================================
